---- MODULE Spec2Model ----
(***************************************************************************)
(* Model of the parameterized-selector evaluation engine                   *)
(* (src/src/parameterizedSelectorFactory.js, lines 646-1337: the variant    *)
(* with persistent, mutated result records and the errorRunCount counter).  *)
(*                                                                         *)
(* The JavaScript control stack is the variable ctl: one activation per    *)
(* in-flight evaluateParameterizedSelector call.  The library's own global *)
(* stack is parameterizedSelectorCallStack.  A step of the model is the    *)
(* straight-line code between two function-call boundaries.                *)
(***************************************************************************)
EXTENDS Integers, Sequences, FiniteSets, TLC

(***************************************************************************)
(* Bounds of the model.                                                    *)
(***************************************************************************)
MaxCalls == 3
MaxStates == 2

(***************************************************************************)
(* Values.  A JavaScript value is a pair: c is what the value contains, v  *)
(* tells objects of equal content apart (two values are the same reference *)
(* iff they are equal as pairs).                                           *)
(***************************************************************************)
Obj(c, v) == [c |-> c, v |-> v]
Null == Obj(<<"null">>, 0)
Undefined == Obj(<<>>, 0)
True == Obj(<<"true">>, 0)
False == Obj(<<"false">>, 0)
NoError == "none"

Keys == {1, 2}

\* The state objects handed to the selectors: per key an object, or nothing.
StateData ==
  { [k \in Keys |-> IF k = 1 THEN Obj(<<"a">>, 1) ELSE Obj(<<"c">>, 1)],
    [k \in Keys |-> IF k = 1 THEN Obj(<<"a">>, 2) ELSE Obj(<<"c">>, 1)],
    [k \in Keys |-> IF k = 1 THEN Obj(<<"b">>, 1) ELSE Obj(<<"c">>, 1)],
    [k \in Keys |-> IF k = 1 THEN Obj(<<"b">>, 1) ELSE Obj(<<"d">>, 1)],
    [k \in Keys |-> IF k = 1 THEN Undefined ELSE Obj(<<"c">>, 1)] }

InitialData == [k \in Keys |-> IF k = 1 THEN Obj(<<"a">>, 1) ELSE Obj(<<"c">>, 1)]

(***************************************************************************)
(* The selectors of the model and their configuration.                     *)
(*   R  root selector: state.data[key]                                     *)
(*   S  root selector with a shallow-equality state comparator             *)
(*   I  selector over R(key), returns a fresh object each run              *)
(*   T  selector over I(1) and, conditionally, S(2)                        *)
(*   P  selector that probes I(1) with hasCachedResult before using it     *)
(*   N  a selector created while the program runs, from any options        *)
(*   Q  root selector that calls R(key) from its transform                 *)
(*   Z  root selector that puts up with a state that is not an object      *)
(*   K  selector that calls no selector, given a state comparator          *)
(*   V  selector that calls I(1) unless hasCachedResult says I(1) is valid *)
(***************************************************************************)
Selectors == {"R", "S", "I", "T", "P", "Q", "Z", "K", "V"}
SelKeys == {<<"R", 1>>, <<"R", 2>>, <<"S", 2>>, <<"I", 1>>, <<"T", 1>>, <<"P", 1>>}

\* COMPARISON_PRESETS
SAME_REFERENCE(a, b) == a = b
IsEmpty(a) == a \in {Null, Undefined}
SAME_REFERENCE_OR_EMPTY(a, b) == a = b \/ (IsEmpty(a) /\ IsEmpty(b))
SHALLOW_EQUAL(a, b) == a = b \/ (~IsEmpty(a) /\ ~IsEmpty(b) /\ a.c = b.c)

(***************************************************************************)
(* Options.  An options object is a function from the option names it has  *)
(* to their values; a comparator or key function is named by its preset.   *)
(* willThrowErrorIfNotSet is the function the defaults hold for the        *)
(* options that must be set.                                               *)
(***************************************************************************)
willThrowErrorIfNotSet == "willThrowErrorIfNotSet"

defaultOptions ==
  [createKeyFromParams |-> willThrowErrorIfNotSet,
   compareIncomingStates |-> "SAME_REFERENCE",
   compareSelectorResults |-> "SHALLOW_EQUAL",
   isRootSelector |-> willThrowErrorIfNotSet]

\* { ...a, ...b }
Spread(a, b) == [k \in DOMAIN a \cup DOMAIN b |-> IF k \in DOMAIN b THEN b[k] ELSE a[k]]

\* parameterizedSelectorFactory(innerFn, overrideOptions): the options it captures.
parameterizedSelectorFactory(overrideOptions) == Spread(defaultOptions, overrideOptions)

\* A withOptions whose base options win over the selector's own.
withOptions_BaseWins(localOptions, overrideOptions) ==
  parameterizedSelectorFactory(Spread(overrideOptions, localOptions))

withOptions(localOptions, overrideOptions) ==
  parameterizedSelectorFactory(Spread(localOptions, overrideOptions))

createParameterizedRootSelector ==
  [createKeyFromParams |-> "JSON_STRING_WITH_STABLE_KEYS",
   compareIncomingStates |-> "SAME_REFERENCE",
   compareSelectorResults |-> "SAME_REFERENCE_OR_EMPTY",
   isRootSelector |-> "true"]

createParameterizedSelector ==
  [createKeyFromParams |-> "JSON_STRING_WITH_STABLE_KEYS",
   compareSelectorResults |-> "SAME_REFERENCE_OR_EMPTY",
   isRootSelector |-> "false"]

NoOptions == [k \in {} |-> ""]

\* How each selector of the model was created: the factory's base options and its own.
Library ==
  [sel \in Selectors |->
     [base |-> IF sel \in {"R", "S", "Q", "Z"} THEN createParameterizedRootSelector
               ELSE createParameterizedSelector,
      options |-> CASE sel \in {"S", "K"} -> [compareIncomingStates |-> "SHALLOW_EQUAL"]
                    [] sel = "I" -> [compareSelectorResults |-> "SHALLOW_EQUAL"]
                    [] OTHER -> NoOptions]]

\* A state is an object (truthy), or null: the state with id 0.
Truthy(state) == state.id > 0

(***************************************************************************)
(* The transform functions.  got is the sequence of results the transform  *)
(* obtained from its nested calls so far; the answer is the transform's    *)
(* next move: a nested selector call, a nested hasCachedResult, a return   *)
(* or a throw.  ver makes the object a transform creates a new reference.  *)
(***************************************************************************)
Move(t, sel, key, val) == [t |-> t, sel |-> sel, key |-> key, val |-> val]

\* A transform that never comes back: it neither calls, returns nor throws.
innerFn_NeverReturns(sel, key, state, got, ver) == Move("spin", sel, key, Undefined)

innerFn(sel, key, state, got, ver) ==
  CASE sel \in {"R", "S"} ->
         \* state.data of a state that is null
         IF state.id = 0 THEN Move("throw", sel, key, Undefined)
         ELSE Move("return", sel, key, state.data[key])
    [] sel = "Z" ->
         IF state.id = 0 THEN Move("return", sel, key, Undefined)
         ELSE Move("return", sel, key, state.data[key])
    [] sel = "Q" ->
         IF Len(got) = 0 THEN Move("call", "R", key, Undefined)
         ELSE IF got[1] = Undefined THEN Move("throw", sel, key, Undefined)
         ELSE Move("return", sel, key, Obj(got[1].c, ver))
    [] sel = "K" -> Move("return", sel, key, Obj(<<"k">>, ver))
    [] sel = "V" ->
         IF Len(got) = 0 THEN Move("probe", "I", 1, Undefined)
         ELSE IF Len(got) = 1 /\ got[1] = True THEN Move("return", sel, key, Obj(<<"v">>, ver))
         ELSE IF Len(got) = 1 THEN Move("call", "I", 1, Undefined)
         ELSE IF got[2] = Undefined THEN Move("throw", sel, key, Undefined)
         ELSE Move("return", sel, key, Obj(got[2].c, ver))
    [] sel = "N" ->
         \* (state, id) => state.data[id], which finds no data when it is handed
         \* the params alone
         IF state.id = 0 THEN Move("throw", sel, key, Undefined)
         ELSE Move("return", sel, key, state.data[key])
    [] sel = "I" ->
         IF Len(got) = 0 THEN Move("call", "R", key, Undefined)
         ELSE IF got[1] = Undefined THEN Move("throw", sel, key, Undefined)
         ELSE Move("return", sel, key, Obj(got[1].c, ver))
    [] sel = "T" ->
         IF Len(got) = 0 THEN Move("call", "I", 1, Undefined)
         ELSE IF Len(got) = 1 /\ got[1].c = <<"b">> THEN Move("call", "S", 2, Undefined)
         ELSE IF Len(got) = 1 THEN Move("return", sel, key, Obj(got[1].c, ver))
         ELSE Move("return", sel, key, Obj(got[1].c \o got[2].c, ver))
    [] sel = "P" ->
         IF Len(got) = 0 THEN Move("probe", "I", 1, Undefined)
         ELSE IF Len(got) = 1 /\ got[1] = True THEN Move("call", "I", 1, Undefined)
         ELSE IF Len(got) = 1 THEN Move("call", "R", 1, Undefined)
         ELSE Move("return", sel, key, Obj(got[2].c, ver))

VARIABLES
  states,                          \* the state objects created so far (index = identity)
  cur,                             \* the state object the caller passes next
  resultRecordsByParam,            \* <<selector, key>> -> result record
  globalCounts,                    \* selector -> global counters
  parameterizedSelectorCallStack,  \* the library's stack of call stack entries
  ctl,                             \* in-flight evaluateParameterizedSelector activations
  lastResult,                      \* what the last external call handed to its caller
  calls,                           \* number of external calls made
  op,                              \* history: the external call in progress, or last made
  prev,                            \* history: the external call before it and its result
  pre,                             \* history: resultRecordsByParam when op started
  prePrev,                         \* history: resultRecordsByParam when prev.op started
  options,                         \* selector -> the options it captured when created
  created                          \* history: selector -> what it was created from

vars == <<states, cur, resultRecordsByParam, globalCounts,
          parameterizedSelectorCallStack, ctl, lastResult, calls, op, prev, pre, prePrev,
          options, created>>

history == <<op, prev, pre, prePrev>>
setup == <<options, created>>

\* The options are used as the code uses them: isRootSelector only for its truthiness.
isRootSelector(sel) == options[sel].isRootSelector # "false"

\* compareIncomingStates: a state is an object whose fields are the per-key objects.
compareIncomingStates(sel, previousState, state) ==
  CASE options[sel].compareIncomingStates = "SAME_REFERENCE" -> previousState.id = state.id
    [] options[sel].compareIncomingStates = "SHALLOW_EQUAL" ->
         previousState.id = state.id \/ previousState.data = state.data

compareSelectorResults(sel, old, new) ==
  CASE options[sel].compareSelectorResults = "SAME_REFERENCE" -> SAME_REFERENCE(old, new)
    [] options[sel].compareSelectorResults = "SAME_REFERENCE_OR_EMPTY" ->
         SAME_REFERENCE_OR_EMPTY(old, new)
    [] options[sel].compareSelectorResults = "SHALLOW_EQUAL" -> SHALLOW_EQUAL(old, new)

MustBeSet(label) == "parameterizedSelector: " \o label \o " must be set."

\* A key function that derives a key whether or not one was configured.
createKeyFromParams_Lenient(sel, keyParams) == [threw |-> FALSE, key |-> keyParams]

\* createKeyFromParams(keyParams): the key (the presets map the params of the model
\* to distinct strings), or the throw of willThrowErrorIfNotSet.
createKeyFromParams(sel, keyParams) ==
  [threw |-> options[sel].createKeyFromParams = willThrowErrorIfNotSet, key |-> keyParams]

\* innerFn(state, keyParams) for a root selector, innerFn(keyParams) otherwise.
NoState == [id |-> 0, data |-> <<>>]
innerFnArguments(sel, state) == IF isRootSelector(sel) THEN state ELSE NoState

StateObj(i) == IF i = 0 THEN NoState ELSE [id |-> i, data |-> states[i]]


NoResult == [t |-> "none", v |-> Undefined, e |-> NoError]

ZeroCounts ==
  [invokeCount |-> 0, skippedRunCount |-> 0, phantomRunCount |-> 0,
   fullRunCount |-> 0, abortedRunCount |-> 0, errorRunCount |-> 0]

(***************************************************************************)
(* The call stack.                                                         *)
(***************************************************************************)
getTopCallStackEntry(stack) == stack[Len(stack)]

\* A push that drops the override values: every entry inherits canReRun.
pushCallStackEntry_NoOverride(stack, state, override) ==
  Append(stack,
         [state |-> state,
          rootDependencies |-> <<>>,
          ownDependencies |-> <<>>,
          canReRun |-> IF Len(stack) > 0 THEN stack[Len(stack)].canReRun ELSE TRUE,
          shouldRecordDependencies |-> TRUE])

\* A push without the default for an empty stack: no parent, no permission.
pushCallStackEntry_NoDefault(stack, state, override) ==
  Append(stack,
         [state |-> state,
          rootDependencies |-> <<>>,
          ownDependencies |-> <<>>,
          canReRun |-> /\ override = "inherit"
                       /\ Len(stack) > 0
                       /\ getTopCallStackEntry(stack).canReRun,
          shouldRecordDependencies |-> TRUE])

pushCallStackEntry(stack, state, override) ==
  Append(stack,
         [state |-> state,
          rootDependencies |-> <<>>,
          ownDependencies |-> <<>>,
          canReRun |-> IF override = "inherit"
                       THEN (IF Len(stack) > 0 THEN getTopCallStackEntry(stack).canReRun
                             ELSE TRUE)
                       ELSE FALSE,
          shouldRecordDependencies |-> TRUE])

popCallStackEntry(stack) == SubSeq(stack, 1, Len(stack) - 1)

\* getArgumentsFromExternalCall with an entry on the stack: the state of the top entry.
getArgumentsFromExternalCall(stack) == getTopCallStackEntry(stack).state

(***************************************************************************)
(* Result records.                                                         *)
(***************************************************************************)
createResultRecord(state) ==
  [state |-> state,
   rootDependencies |-> <<>>,
   ownDependencies |-> <<>>,
   hasReturnValue |-> FALSE,
   returnValue |-> Null,
   error |-> NoError,
   invokeCount |-> 0,
   skippedRunCount |-> 0,
   phantomRunCount |-> 0,
   fullRunCount |-> 0,
   abortedRunCount |-> 0,
   errorRunCount |-> 0]

hasOwnProperty(sk) == sk \in DOMAIN resultRecordsByParam

\* An activation of evaluateParameterizedSelector: its arguments and locals.
Activation(sel, key, state, via) ==
  [sel |-> sel, key |-> key, state |-> state, via |-> via, pc |-> "begin",
   idx |-> 0,
   previousRootDependencies |-> <<>>,
   previousOwnDependencies |-> <<>>,
   canUsePreviousResult |-> FALSE,
   got |-> <<>>,
   oldReturnValue |-> Undefined,
   newReturnValue |-> Undefined,
   newError |-> NoError,
   sawFailure |-> FALSE,   \* history: a dependency it checked came back without a value
   checked |-> <<>>]       \* history: the edges its dependency check evaluated, in order

NoOp == [kind |-> "none", sel |-> "none", key |-> 0, sid |-> 0]

Idle == ctl = <<>>
TopAct == ctl[Len(ctl)]
SetTop(a) == [ctl EXCEPT ![Len(ctl)] = a]

Init ==
  /\ states = <<InitialData>>
  /\ cur = 1
  /\ resultRecordsByParam = [sk \in {} |-> createResultRecord(StateObj(1))]
  /\ globalCounts = [s \in Selectors |-> ZeroCounts]
  /\ parameterizedSelectorCallStack = <<>>
  /\ ctl = <<>>
  /\ lastResult = NoResult
  /\ calls = 0
  /\ op = NoOp
  /\ prev = [op |-> NoOp, result |-> NoResult]
  /\ pre = resultRecordsByParam
  /\ prePrev = resultRecordsByParam
  /\ created = Library
  /\ options = [sel \in Selectors |-> withOptions(Library[sel].base, Library[sel].options)]

(***************************************************************************)
(* The caller's side: a new state object, or an earlier one again.         *)
(***************************************************************************)
NewState(d) ==
  /\ Idle
  /\ Len(states) < MaxStates
  /\ states' = Append(states, d)
  /\ cur' = Len(states) + 1
  /\ UNCHANGED <<setup, resultRecordsByParam, globalCounts, parameterizedSelectorCallStack,
                 ctl, lastResult, calls, history>>

UseState(i) ==
  /\ Idle
  /\ i # cur
  /\ cur' = i
  /\ UNCHANGED <<setup, states, resultRecordsByParam, globalCounts,
                 parameterizedSelectorCallStack, ctl, lastResult, calls, history>>

\* The caller passes null as the state.
UseNullState ==
  /\ Idle
  /\ cur # 0
  /\ cur' = 0
  /\ UNCHANGED <<setup, states, resultRecordsByParam, globalCounts,
                 parameterizedSelectorCallStack, ctl, lastResult, calls, history>>

(***************************************************************************)
(* A selector is created: factory(innerFn, options), the factory being     *)
(* parameterizedSelectorFactory itself or one made by withOptions(base).   *)
(***************************************************************************)
OptionNames == DOMAIN defaultOptions

\* The values the model supplies for each option, when it supplies one.
OptionValues ==
  [createKeyFromParams |-> {"JSON_STRING_WITH_STABLE_KEYS"},
   compareIncomingStates |-> {},
   compareSelectorResults |-> {"SAME_REFERENCE"},
   isRootSelector |-> {"true", "false"}]

OptionObjects ==
  UNION { {o \in [given -> UNION {OptionValues[k] : k \in OptionNames}] :
             \A k \in given : o[k] \in OptionValues[k]} : given \in SUBSET OptionNames }

CreateSelector(sel, base, overrideOptions) ==
  /\ Idle
  /\ sel \notin DOMAIN options
  /\ options' = (sel :> withOptions(base, overrideOptions)) @@ options
  /\ created' = (sel :> [base |-> base, options |-> overrideOptions]) @@ created
  /\ globalCounts' = (sel :> ZeroCounts) @@ globalCounts
  /\ UNCHANGED <<states, cur, resultRecordsByParam, parameterizedSelectorCallStack,
                 ctl, lastResult, calls, history>>

(***************************************************************************)
(* parameterizedSelector(state, keyParams) called from outside.  With no   *)
(* entry on the stack (isNewStart) the wrapper pushes one for the state it *)
(* was given and evaluates.  With an entry on the stack the wrapper takes  *)
(* the call for a nested one: it pushes nothing, takes the state of the    *)
(* top entry and reads its first argument as keyParams.                    *)
(***************************************************************************)
ExternalCall(sk) ==
  LET isNewStart == parameterizedSelectorCallStack = <<>>
      state == IF isNewStart THEN StateObj(cur)
               ELSE getArgumentsFromExternalCall(parameterizedSelectorCallStack)
      keyParams == IF isNewStart THEN sk[2] ELSE StateObj(cur)
  IN /\ Idle
     /\ calls < MaxCalls
     /\ calls' = calls + 1
     /\ parameterizedSelectorCallStack' =
          IF isNewStart
          THEN pushCallStackEntry(parameterizedSelectorCallStack, state, "inherit")
          ELSE parameterizedSelectorCallStack
     /\ ctl' = <<Activation(sk[1], keyParams, state, "extCall")>>
     /\ lastResult' = NoResult
     /\ op' = [kind |-> "call", sel |-> sk[1], key |-> sk[2], sid |-> cur]
     /\ prev' = [op |-> op, result |-> lastResult]
     /\ pre' = resultRecordsByParam
     /\ prePrev' = pre
     /\ UNCHANGED <<setup, states, cur, resultRecordsByParam, globalCounts>>

\* parameterizedSelector.hasCachedResult(state, keyParams) called from outside: the
\* arguments are read as in the wrapper, and an entry is pushed in either case.
ExternalProbe(sk) ==
  LET isNewStart == parameterizedSelectorCallStack = <<>>
      state == IF isNewStart THEN StateObj(cur)
               ELSE getArgumentsFromExternalCall(parameterizedSelectorCallStack)
      keyParams == IF isNewStart THEN sk[2] ELSE StateObj(cur)
  IN /\ Idle
     /\ calls < MaxCalls
     /\ calls' = calls + 1
     /\ parameterizedSelectorCallStack' =
          pushCallStackEntry(parameterizedSelectorCallStack, state, "canReRun: false")
     /\ ctl' = <<Activation(sk[1], keyParams, state, "extProbe")>>
     /\ lastResult' = NoResult
     /\ op' = [kind |-> "probe", sel |-> sk[1], key |-> sk[2], sid |-> cur]
     /\ prev' = [op |-> op, result |-> lastResult]
     /\ pre' = resultRecordsByParam
     /\ prePrev' = pre
     /\ UNCHANGED <<setup, states, cur, resultRecordsByParam, globalCounts>>


(***************************************************************************)
(* Counters (performanceChecksEnabled is on, as in the repository's tests). *)
(***************************************************************************)
Bump(rec, counter) == [rec EXCEPT ![counter] = @ + 1]

\* A step 6 that tells the immediate parent alone about a root selector.
recordDependencies_ParentOnly(stack, sel, key, value) ==
  LET n == Len(stack)
      edge == <<sel, key, value>>
  IN IF n > 0 /\ stack[n].shouldRecordDependencies
     THEN [stack EXCEPT ![n].ownDependencies = Append(@, edge),
                        ![n].rootDependencies =
                            IF isRootSelector(sel) THEN Append(@, edge) ELSE @]
     ELSE stack

\* A step 6 that keeps root selectors out of the own-dependency lists.
recordDependencies_RootsApart(stack, sel, key, value) ==
  LET n == Len(stack)
      edge == <<sel, key, value>>
  IN IF isRootSelector(sel)
     THEN [i \in 1..n |->
             IF stack[i].shouldRecordDependencies
             THEN [stack[i] EXCEPT !.rootDependencies = Append(@, edge)]
             ELSE stack[i]]
     ELSE IF n > 0 /\ stack[n].shouldRecordDependencies
          THEN [stack EXCEPT ![n].ownDependencies = Append(@, edge)]
          ELSE stack

\* Step 6 of evaluateParameterizedSelector: tell the callers that this selector ran.
recordDependencies(stack, sel, key, value) ==
  LET n == Len(stack)
      edge == <<sel, key, value>>
      s1 == IF n > 0 /\ stack[n].shouldRecordDependencies
            THEN [stack EXCEPT ![n].ownDependencies = Append(@, edge)]
            ELSE stack
  IN IF isRootSelector(sel)
     THEN [i \in 1..n |->
             IF s1[i].shouldRecordDependencies
             THEN [s1[i] EXCEPT !.rootDependencies = Append(@, edge)]
             ELSE s1[i]]
     ELSE s1

\* hasAnyDependencyChanged: the loop has run off the end of its list (returns false),
\* so hasChanges is false and the previous result can be used.
AdvanceCheck(act) ==
  LET list == IF act.pc = "checkRoot" THEN act.previousRootDependencies
              ELSE act.previousOwnDependencies
  IN IF act.pc \in {"checkRoot", "checkOwn"} /\ act.idx > Len(list)
     THEN [act EXCEPT !.pc = "decide", !.canUsePreviousResult = TRUE]
     ELSE act

\* A dependency check that goes on with the next edge of the list whatever it found.
AfterDependency_KeepsGoing(caller, rec) == AdvanceCheck([caller EXCEPT !.idx = @ + 1])

\* A dependency check in which a changed root dependency alone forces the re-run.
AfterDependency_RootDecides(caller, rec) ==
  LET list == IF caller.pc = "checkRoot" THEN caller.previousRootDependencies
              ELSE caller.previousOwnDependencies
      changed == ~rec.hasReturnValue \/ rec.returnValue # list[caller.idx][3]
  IN IF ~changed THEN AdvanceCheck([caller EXCEPT !.idx = @ + 1])
     ELSE [caller EXCEPT !.pc = "decide", !.canUsePreviousResult = FALSE]

\* hasAnyDependencyChanged, after directRunFromParent returned rec for edge idx.
AfterDependency(caller, rec) ==
  LET list == IF caller.pc = "checkRoot" THEN caller.previousRootDependencies
              ELSE caller.previousOwnDependencies
      changed == ~rec.hasReturnValue \/ rec.returnValue # list[caller.idx][3]
  IN IF ~changed THEN AdvanceCheck([caller EXCEPT !.idx = @ + 1])
     ELSE IF caller.pc = "checkRoot"
          THEN AdvanceCheck([caller EXCEPT !.pc = "checkOwn", !.idx = 1])
          ELSE [caller EXCEPT !.pc = "decide", !.canUsePreviousResult = FALSE]

(***************************************************************************)
(* What the caller of evaluateParameterizedSelector does with the record   *)
(* it gets back: the public wrapper (from outside, or from a transform),   *)
(* hasCachedResult (from outside, or from a transform), or the dependency  *)
(* check of another selector.                                              *)
(***************************************************************************)
\* History: which edge of which list the dependency check has just evaluated.
Evaluated(caller, act, rec) ==
  LET list == IF caller.pc = "checkRoot" THEN caller.previousRootDependencies
              ELSE caller.previousOwnDependencies
  IN [list |-> caller.pc, idx |-> caller.idx, sel |-> act.sel, key |-> act.key,
      changed |-> ~rec.hasReturnValue \/ rec.returnValue # list[caller.idx][3]]

\* A wrapper that hands a failed nested call's (absent) value to the transform.
Resume_SwallowsNested(rest, stack, act, rec) ==
  LET caller == rest[Len(rest)]
      withCaller(c) == [rest EXCEPT ![Len(rest)] = c]
  IN CASE act.via = "extCall" ->
            [ctl |-> rest, stack |-> popCallStackEntry(stack),
             last |-> IF rec.error # NoError
                      THEN [t |-> "throw", v |-> Undefined, e |-> rec.error]
                      ELSE [t |-> "value", v |-> rec.returnValue, e |-> NoError]]
       [] act.via = "extProbe" ->
            [ctl |-> rest, stack |-> popCallStackEntry(stack),
             last |-> [t |-> "bool", v |-> IF rec.hasReturnValue THEN True ELSE False,
                       e |-> NoError]]
       [] act.via = "nestedCall" ->
            [ctl |-> withCaller([caller EXCEPT !.got = Append(@, rec.returnValue)]),
             stack |-> stack, last |-> lastResult]
       [] act.via = "nestedProbe" ->
            [ctl |-> withCaller([caller EXCEPT !.got =
                                   Append(@, IF rec.hasReturnValue THEN True ELSE False)]),
             stack |-> popCallStackEntry(stack), last |-> lastResult]
       [] act.via = "depCheck" ->
            [ctl |-> withCaller([AfterDependency(caller, rec) EXCEPT
                                   !.sawFailure = @ \/ ~rec.hasReturnValue,
                                   !.checked = Append(@, Evaluated(caller, act, rec))]),
             stack |-> stack, last |-> lastResult]

Resume(rest, stack, act, rec) ==
  LET caller == rest[Len(rest)]
      withCaller(c) == [rest EXCEPT ![Len(rest)] = c]
  IN CASE act.via = "extCall" ->
            [ctl |-> rest, stack |-> popCallStackEntry(stack),
             last |-> IF rec.error # NoError
                      THEN [t |-> "throw", v |-> Undefined, e |-> rec.error]
                      ELSE [t |-> "value", v |-> rec.returnValue, e |-> NoError]]
       [] act.via = "extProbe" ->
            [ctl |-> rest, stack |-> popCallStackEntry(stack),
             last |-> [t |-> "bool", v |-> IF rec.hasReturnValue THEN True ELSE False,
                       e |-> NoError]]
       [] act.via = "nestedCall" ->
            [ctl |-> withCaller(IF rec.error # NoError
                                THEN [caller EXCEPT !.newError = rec.error, !.pc = "finish"]
                                ELSE [caller EXCEPT !.got = Append(@, rec.returnValue)]),
             stack |-> stack, last |-> lastResult]
       [] act.via = "nestedProbe" ->
            [ctl |-> withCaller([caller EXCEPT !.got =
                                   Append(@, IF rec.hasReturnValue THEN True ELSE False)]),
             stack |-> popCallStackEntry(stack), last |-> lastResult]
       [] act.via = "depCheck" ->
            [ctl |-> withCaller([AfterDependency(caller, rec) EXCEPT
                                   !.sawFailure = @ \/ ~rec.hasReturnValue,
                                   !.checked = Append(@, Evaluated(caller, act, rec))]),
             stack |-> stack, last |-> lastResult]

(***************************************************************************)
(* evaluateParameterizedSelector, from its entry to the first point where  *)
(* it calls out: find or create the record, count the invocation, and try  *)
(* the state check.                                                        *)
(***************************************************************************)
\* A state check that never succeeds.
StateUnchanged_Never(sel, state, previousState) == FALSE

\* A state check that uses strict identity for root selectors too.
StateUnchanged_IdentityOnly(sel, state, previousState) ==
  Truthy(state) /\ Truthy(previousState) /\ state.id = previousState.id

\* A state check that asks the configured comparator for every selector.
StateUnchanged_ComparatorForAll(sel, state, previousState) ==
  Truthy(state) /\ Truthy(previousState) /\ compareIncomingStates(sel, previousState, state)

StateUnchanged(sel, state, previousState) ==
  /\ Truthy(state)
  /\ Truthy(previousState)
  /\ IF isRootSelector(sel) THEN compareIncomingStates(sel, previousState, state)
     ELSE state.id = previousState.id

\* A step 3 that root selectors take as well.
HasDependenciesToCheck_RootsToo(sel, rec) ==
  Len(rec.rootDependencies) > 0 \/ Len(rec.ownDependencies) > 0

\* Step 3 is for selectors that are not root selectors and recorded a dependency.
HasDependenciesToCheck(sel, rec) ==
  /\ ~isRootSelector(sel)
  /\ (Len(rec.rootDependencies) > 0 \/ Len(rec.ownDependencies) > 0)

EvalBegin ==
  /\ ~Idle
  /\ TopAct.pc = "begin"
  /\ ~createKeyFromParams(TopAct.sel, TopAct.key).threw
  /\ LET act == TopAct
         sk == <<act.sel, act.key>>
         rec0 == IF hasOwnProperty(sk) THEN resultRecordsByParam[sk]
                 ELSE createResultRecord(act.state)
         rec == Bump(rec0, "invokeCount")
         next ==
           IF ~rec.hasReturnValue
           THEN [act EXCEPT !.pc = "decide"]
           ELSE IF StateUnchanged(act.sel, act.state, rec.state)
           THEN [act EXCEPT !.pc = "decide", !.canUsePreviousResult = TRUE]
           ELSE IF HasDependenciesToCheck(act.sel, rec)
           THEN AdvanceCheck([act EXCEPT !.pc = "checkRoot", !.idx = 1,
                                !.previousRootDependencies = rec.rootDependencies,
                                !.previousOwnDependencies = rec.ownDependencies])
           ELSE [act EXCEPT !.pc = "decide"]
     IN /\ resultRecordsByParam' =
             IF hasOwnProperty(sk) THEN [resultRecordsByParam EXCEPT ![sk] = rec]
             ELSE (sk :> rec) @@ resultRecordsByParam
        /\ globalCounts' = [globalCounts EXCEPT ![act.sel] = Bump(@, "invokeCount")]
        /\ ctl' = SetTop(next)
  /\ UNCHANGED <<setup, states, cur, parameterizedSelectorCallStack, lastResult, calls, history>>

\* createKeyFromParams throws: nothing catches it on the way back to the caller of
\* the wrapper (or of hasCachedResult), whose popCallStackEntry is skipped.  No
\* transform of the model calls a selector without a key function.
KeyDerivationThrows ==
  /\ ~Idle
  /\ TopAct.pc = "begin"
  /\ TopAct.via \in {"extCall", "extProbe"}
  /\ createKeyFromParams(TopAct.sel, TopAct.key).threw
  /\ ctl' = <<>>
  /\ lastResult' = [t |-> "throw", v |-> Undefined, e |-> MustBeSet("createKeyFromParams")]
  /\ UNCHANGED <<setup, states, cur, resultRecordsByParam, globalCounts,
                 parameterizedSelectorCallStack, calls, history>>

\* hasAnyDependencyChanged: run the next recorded dependency with directRunFromParent.
CheckDependency ==
  /\ ~Idle
  /\ TopAct.pc \in {"checkRoot", "checkOwn"}
  /\ LET act == TopAct
         list == IF act.pc = "checkRoot" THEN act.previousRootDependencies
                 ELSE act.previousOwnDependencies
         edge == list[act.idx]
     IN ctl' = Append(ctl, Activation(edge[1], edge[2], act.state, "depCheck"))
  /\ UNCHANGED <<setup, states, cur, resultRecordsByParam, globalCounts,
                 parameterizedSelectorCallStack, lastResult, calls, history>>


(***************************************************************************)
(* After the checks: resultRecord.state = state, then one of three paths.  *)
(***************************************************************************)
\* A skipped run that the record of the key counts twice.
Skipped_CountedTwice(rec, state) ==
  Bump(Bump([rec EXCEPT !.state = state], "skippedRunCount"), "skippedRunCount")

\* A skipped run that is not counted.
Skipped_Uncounted(rec, state) == [rec EXCEPT !.state = state]

Skipped(rec, state) == Bump([rec EXCEPT !.state = state], "skippedRunCount")

\* An abort that starts the record of the key afresh.
Aborted_Resets(rec, state) == Bump(createResultRecord(state), "abortedRunCount")

\* An abort that forgets to withdraw the value it could not refresh.
Aborted_KeepsFlag(rec, state) == Bump([rec EXCEPT !.state = state], "abortedRunCount")

Aborted(rec, state) ==
  Bump([rec EXCEPT !.state = state, !.hasReturnValue = FALSE], "abortedRunCount")

\* A completion that stores the record under every key of the selector.
Complete_AllKeys(act, rec) ==
  LET stack == recordDependencies(parameterizedSelectorCallStack, act.sel, act.key,
                                  rec.returnValue)
      out == Resume(SubSeq(ctl, 1, Len(ctl) - 1), stack, act, rec)
  IN /\ resultRecordsByParam' =
          [sk \in DOMAIN resultRecordsByParam |->
             IF sk[1] = act.sel THEN rec ELSE resultRecordsByParam[sk]]
     /\ parameterizedSelectorCallStack' = out.stack
     /\ ctl' = out.ctl
     /\ lastResult' = out.last

Complete(act, rec) ==
  LET sk == <<act.sel, act.key>>
      stack == recordDependencies(parameterizedSelectorCallStack, act.sel, act.key,
                                  rec.returnValue)
      out == Resume(SubSeq(ctl, 1, Len(ctl) - 1), stack, act, rec)
  IN /\ resultRecordsByParam' = [resultRecordsByParam EXCEPT ![sk] = rec]
     /\ parameterizedSelectorCallStack' = out.stack
     /\ ctl' = out.ctl
     /\ lastResult' = out.last

\* The previous result can be used.
SkippedRun ==
  /\ ~Idle
  /\ TopAct.pc = "decide"
  /\ TopAct.canUsePreviousResult
  /\ LET act == TopAct
         rec == resultRecordsByParam[<<act.sel, act.key>>]
     IN /\ Complete(act, Skipped(rec, act.state))
        /\ globalCounts' = [globalCounts EXCEPT ![act.sel] = Bump(@, "skippedRunCount")]
  /\ UNCHANGED <<setup, states, cur, calls, history>>

\* We need to re-run, but the parentCaller told us not to.
AbortedRun ==
  /\ ~Idle
  /\ TopAct.pc = "decide"
  /\ ~TopAct.canUsePreviousResult
  /\ ~getTopCallStackEntry(parameterizedSelectorCallStack).canReRun
  /\ LET act == TopAct
         rec == resultRecordsByParam[<<act.sel, act.key>>]
     IN /\ Complete(act, Aborted(rec, act.state))
        /\ globalCounts' = [globalCounts EXCEPT ![act.sel] = Bump(@, "abortedRunCount")]
  /\ UNCHANGED <<setup, states, cur, calls, history>>

\* Step 4: push a call stack entry and run the transform.
StartRun ==
  /\ ~Idle
  /\ TopAct.pc = "decide"
  /\ ~TopAct.canUsePreviousResult
  /\ getTopCallStackEntry(parameterizedSelectorCallStack).canReRun
  /\ LET act == TopAct
         sk == <<act.sel, act.key>>
         rec == resultRecordsByParam[sk]
     IN /\ resultRecordsByParam' = [resultRecordsByParam EXCEPT ![sk].state = act.state]
        /\ ctl' = SetTop([act EXCEPT !.pc = "run", !.oldReturnValue = rec.returnValue])
        /\ parameterizedSelectorCallStack' =
             pushCallStackEntry(parameterizedSelectorCallStack, act.state, "inherit")
  /\ UNCHANGED <<setup, states, cur, globalCounts, lastResult, calls, history>>

(***************************************************************************)
(* The transform function runs: its nested calls go through the public     *)
(* wrapper, which takes the state from the entry on top of the stack.       *)
(***************************************************************************)
NextVer(rec) == rec.fullRunCount + rec.phantomRunCount + rec.errorRunCount + 1

NextMove(act) ==
  innerFn(act.sel, act.key, innerFnArguments(act.sel, act.state), act.got,
          NextVer(resultRecordsByParam[<<act.sel, act.key>>]))

TransformCall ==
  /\ ~Idle
  /\ TopAct.pc = "run"
  /\ NextMove(TopAct).t = "call"
  /\ LET m == NextMove(TopAct)
     IN ctl' = Append(ctl, Activation(m.sel, m.key,
                 getArgumentsFromExternalCall(parameterizedSelectorCallStack), "nestedCall"))
  /\ UNCHANGED <<setup, states, cur, resultRecordsByParam, globalCounts,
                 parameterizedSelectorCallStack, lastResult, calls, history>>

TransformProbe ==
  /\ ~Idle
  /\ TopAct.pc = "run"
  /\ NextMove(TopAct).t = "probe"
  /\ LET m == NextMove(TopAct)
         state == getArgumentsFromExternalCall(parameterizedSelectorCallStack)
     IN /\ ctl' = Append(ctl, Activation(m.sel, m.key, state, "nestedProbe"))
        /\ parameterizedSelectorCallStack' =
             pushCallStackEntry(parameterizedSelectorCallStack, state, "canReRun: false")
  /\ UNCHANGED <<setup, states, cur, resultRecordsByParam, globalCounts, lastResult, calls, history>>

TransformReturn ==
  /\ ~Idle
  /\ TopAct.pc = "run"
  /\ NextMove(TopAct).t = "return"
  /\ ctl' = SetTop([TopAct EXCEPT !.pc = "finish", !.newReturnValue = NextMove(TopAct).val])
  /\ UNCHANGED <<setup, states, cur, resultRecordsByParam, globalCounts,
                 parameterizedSelectorCallStack, lastResult, calls, history>>

ErrorOf(sel) == "TypeError in " \o sel

TransformThrow ==
  /\ ~Idle
  /\ TopAct.pc = "run"
  /\ NextMove(TopAct).t = "throw"
  /\ ctl' = SetTop([TopAct EXCEPT !.pc = "finish", !.newError = ErrorOf(TopAct.sel)])
  /\ UNCHANGED <<setup, states, cur, resultRecordsByParam, globalCounts,
                 parameterizedSelectorCallStack, lastResult, calls, history>>

(***************************************************************************)
(* Step 5: the transform is done (it returned, or threw).  Pop the entry,  *)
(* look at what came back, update the record and its dependencies.         *)
(***************************************************************************)
Outcome(act, rec) ==
  IF act.newError # NoError THEN "errorRunCount"
  ELSE IF rec.hasReturnValue /\ compareSelectorResults(act.sel, act.oldReturnValue,
                                                       act.newReturnValue)
  THEN "phantomRunCount"
  ELSE "fullRunCount"

\* A step 5 whose full run leaves the error of an earlier failure in the record.
Updated_KeepsError(act, rec, callStackEntry) ==
  LET o == Outcome(act, rec)
      r1 == CASE o = "errorRunCount" ->
                   [rec EXCEPT !.returnValue = Undefined, !.hasReturnValue = FALSE,
                               !.error = act.newError]
              [] o = "phantomRunCount" -> rec
              [] o = "fullRunCount" ->
                   [rec EXCEPT !.returnValue = act.newReturnValue, !.hasReturnValue = TRUE]
      r2 == Bump(r1, o)
  IN IF o # "errorRunCount"
        /\ (Len(callStackEntry.rootDependencies) > 0 \/ Len(callStackEntry.ownDependencies) > 0)
     THEN [r2 EXCEPT !.rootDependencies = callStackEntry.rootDependencies,
                     !.ownDependencies = callStackEntry.ownDependencies]
     ELSE r2

\* A step 5 that records the error but keeps the value the record held.
Updated_KeepsValue(act, rec, callStackEntry) ==
  LET o == Outcome(act, rec)
      r1 == CASE o = "errorRunCount" -> [rec EXCEPT !.error = act.newError]
              [] o = "phantomRunCount" -> rec
              [] o = "fullRunCount" ->
                   [rec EXCEPT !.returnValue = act.newReturnValue, !.hasReturnValue = TRUE,
                               !.error = NoError]
      r2 == Bump(r1, o)
  IN IF r2.error = NoError
        /\ (Len(callStackEntry.rootDependencies) > 0 \/ Len(callStackEntry.ownDependencies) > 0)
     THEN [r2 EXCEPT !.rootDependencies = callStackEntry.rootDependencies,
                     !.ownDependencies = callStackEntry.ownDependencies]
     ELSE r2

Updated(act, rec, callStackEntry) ==
  LET o == Outcome(act, rec)
      r1 == CASE o = "errorRunCount" ->
                   [rec EXCEPT !.returnValue = Undefined, !.hasReturnValue = FALSE,
                               !.error = act.newError]
              [] o = "phantomRunCount" -> rec
              [] o = "fullRunCount" ->
                   [rec EXCEPT !.returnValue = act.newReturnValue, !.hasReturnValue = TRUE,
                               !.error = NoError]
      r2 == Bump(r1, o)
  IN IF r2.error = NoError
        /\ (Len(callStackEntry.rootDependencies) > 0 \/ Len(callStackEntry.ownDependencies) > 0)
     THEN [r2 EXCEPT !.rootDependencies = callStackEntry.rootDependencies,
                     !.ownDependencies = callStackEntry.ownDependencies]
     ELSE r2

FinishRun ==
  /\ ~Idle
  /\ TopAct.pc = "finish"
  /\ LET act == TopAct
         sk == <<act.sel, act.key>>
         rec == resultRecordsByParam[sk]
         callStackEntry == getTopCallStackEntry(parameterizedSelectorCallStack)
         popped == popCallStackEntry(parameterizedSelectorCallStack)
         new == Updated(act, rec, callStackEntry)
         stack == recordDependencies(popped, act.sel, act.key, new.returnValue)
         out == Resume(SubSeq(ctl, 1, Len(ctl) - 1), stack, act, new)
     IN /\ resultRecordsByParam' = [resultRecordsByParam EXCEPT ![sk] = new]
        /\ globalCounts' = [globalCounts EXCEPT ![act.sel] = Bump(@, Outcome(act, rec))]
        /\ parameterizedSelectorCallStack' = out.stack
        /\ ctl' = out.ctl
        /\ lastResult' = out.last
  /\ UNCHANGED <<setup, states, cur, calls, history>>

Next ==
  \/ \E d \in StateData : NewState(d)
  \/ \E i \in 1..Len(states) : UseState(i)
  \/ \E sk \in SelKeys : ExternalCall(sk)
  \/ \E sk \in SelKeys : ExternalProbe(sk)
  \/ EvalBegin
  \/ CheckDependency
  \/ SkippedRun
  \/ AbortedRun
  \/ StartRun
  \/ TransformCall
  \/ TransformProbe
  \/ TransformReturn
  \/ TransformThrow
  \/ FinishRun

Spec == Init /\ [][Next]_vars

(***************************************************************************)
(* The library is synchronous code on one thread: once a call has been     *)
(* made, the engine goes on executing it, so a step of the evaluation that *)
(* stays possible is eventually taken.  The caller owes no further call.   *)
(***************************************************************************)
Step ==
  \/ EvalBegin
  \/ CheckDependency
  \/ SkippedRun
  \/ AbortedRun
  \/ StartRun
  \/ TransformCall
  \/ TransformProbe
  \/ TransformReturn
  \/ TransformThrow
  \/ FinishRun

SpecLive == Init /\ [][Next]_vars /\ WF_vars(Step)

(***************************************************************************)
(* The same program used with the selectors Q, Z, K and V and with null    *)
(* as a state: a root selector that records dependencies, a selector that  *)
(* records none, a run that collects no dependency after one that did.     *)
(***************************************************************************)
CornerKeys == {<<"Q", 1>>, <<"Z", 1>>, <<"K", 1>>, <<"V", 1>>, <<"I", 1>>}

NextCorner ==
  \/ \E d \in StateData : NewState(d)
  \/ \E i \in 1..Len(states) : UseState(i)
  \/ UseNullState
  \/ \E sk \in CornerKeys : ExternalCall(sk)
  \/ \E sk \in CornerKeys : ExternalProbe(sk)
  \/ EvalBegin
  \/ CheckDependency
  \/ SkippedRun
  \/ AbortedRun
  \/ StartRun
  \/ TransformCall
  \/ TransformProbe
  \/ TransformReturn
  \/ TransformThrow
  \/ FinishRun

SpecCorner == Init /\ [][NextCorner]_vars

(***************************************************************************)
(* The same program with one more selector, N, created from any base and   *)
(* any options, and then used from outside.  A failed key derivation       *)
(* leaves its entry on the call stack; what calls do on such a stack is    *)
(* not part of this specification.                                         *)
(***************************************************************************)
CreatedKeys == {<<"N", 1>>}

NextOptions ==
  \/ \E base \in OptionObjects, overrideOptions \in OptionObjects :
        CreateSelector("N", base, overrideOptions)
  \/ \E d \in StateData : NewState(d)
  \/ \E i \in 1..Len(states) : UseState(i)
  \/ \E sk \in CreatedKeys :
        sk[1] \in DOMAIN options /\ ExternalCall(sk)
  \/ \E sk \in CreatedKeys :
        sk[1] \in DOMAIN options /\ ExternalProbe(sk)
  \/ EvalBegin
  \/ KeyDerivationThrows
  \/ SkippedRun
  \/ AbortedRun
  \/ StartRun
  \/ TransformReturn
  \/ TransformThrow
  \/ FinishRun

SpecOptions == Init /\ [][NextOptions]_vars


(***************************************************************************)
(* Reading the model.                                                      *)
(***************************************************************************)
Done == Idle /\ lastResult.t # "none"
CountsOf(rec) == [c \in DOMAIN ZeroCounts |-> rec[c]]
getAllCountsForParams(table, sk) ==
  IF sk \in DOMAIN table THEN CountsOf(table[sk]) ELSE ZeroCounts
OpKey == <<op.sel, op.key>>

(***************************************************************************)
(* C1  Idempotence of reuse: a selector called again with the same state   *)
(* object and the same params, right after a call that returned a value,   *)
(* returns the identical reference and counts as a skipped run only:       *)
(* invokeCount and skippedRunCount grow by one, the other counters stay.    *)
(***************************************************************************)
RepeatedCall ==
  /\ Done
  /\ op.kind = "call"
  /\ prev.op = op
  /\ prev.result.t = "value"

RECURSIVE FromScratch(_, _, _, _)
FromScratch(sel, key, state, got) ==
  LET m == innerFn(sel, key, state, got, 0)
  IN CASE m.t = "return" -> [ok |-> TRUE, c |-> m.val.c]
       [] m.t = "throw" -> [ok |-> FALSE, c |-> <<>>]
       [] m.t = "probe" -> FromScratch(sel, key, state, Append(got, False))
       [] m.t = "call" ->
            LET r == FromScratch(m.sel, m.key, state, <<>>)
            IN IF r.ok THEN FromScratch(sel, key, state, Append(got, Obj(r.c, 0)))
               ELSE [ok |-> FALSE, c |-> <<>>]

(***************************************************************************)
(* C3  No stale value: whatever was called before, a call returns what     *)
(* the transform would produce from scratch at the state it is given       *)
(* (and fails when the transform would fail).                              *)
(***************************************************************************)
C3_NeverStale ==
  (Done /\ op.kind = "call") =>
    LET fresh == FromScratch(op.sel, op.key, StateObj(op.sid), <<>>)
    IN IF fresh.ok THEN lastResult.t = "value" /\ lastResult.v.c = fresh.c
       ELSE lastResult.t = "throw"


(***************************************************************************)
(* The outcome of one whole evaluation, computed in one go from a table of *)
(* result records: evaluateParameterizedSelector with everything it calls. *)
(* It answers what a call would do; the dependency lists a run would write *)
(* are left out, no evaluation of the same call reads them.                *)
(***************************************************************************)
RECURSIVE EvaluateAll(_, _, _, _, _)
RECURSIVE CheckAll(_, _, _, _, _)
RECURSIVE TransformAll(_, _, _, _, _)

NoEntry == [rootDependencies |-> <<>>, ownDependencies |-> <<>>]

EvaluateAll(table, sel, key, state, canReRun) ==
  LET sk == <<sel, key>>
      rec0 == IF sk \in DOMAIN table THEN table[sk] ELSE createResultRecord(state)
      rec == Bump(rec0, "invokeCount")
      t1 == IF sk \in DOMAIN table THEN [table EXCEPT ![sk] = rec] ELSE (sk :> rec) @@ table
      byState == rec.hasReturnValue /\ StateUnchanged(sel, state, rec.state)
      mustCheck == /\ rec.hasReturnValue
                   /\ ~byState
                   /\ HasDependenciesToCheck(sel, rec)
      roots == IF mustCheck THEN CheckAll(t1, rec.rootDependencies, 1, state, canReRun)
               ELSE [table |-> t1, changed |-> FALSE]
      owns == IF mustCheck /\ roots.changed
              THEN CheckAll(roots.table, rec.ownDependencies, 1, state, canReRun)
              ELSE roots
      canUsePreviousResult == byState \/ (mustCheck /\ ~owns.changed)
      t2 == [owns.table EXCEPT ![sk].state = state]
      r2 == t2[sk]
  IN IF canUsePreviousResult
     THEN [table |-> [t2 EXCEPT ![sk] = Skipped(r2, state)], path |-> "skippedRunCount"]
     ELSE IF ~canReRun
     THEN [table |-> [t2 EXCEPT ![sk] = Aborted(r2, state)], path |-> "abortedRunCount"]
     ELSE LET ran == TransformAll(t2, sel, key, state, <<>>)
              act == [sel |-> sel, oldReturnValue |-> r2.returnValue,
                      newReturnValue |-> ran.val, newError |-> ran.err]
              r3 == ran.table[sk]
          IN [table |-> [ran.table EXCEPT ![sk] = Updated(act, r3, NoEntry)],
              path |-> Outcome(act, r3)]

CheckAll(table, list, i, state, canReRun) ==
  IF i > Len(list) THEN [table |-> table, changed |-> FALSE]
  ELSE LET r == EvaluateAll(table, list[i][1], list[i][2], state, canReRun)
           rec == r.table[<<list[i][1], list[i][2]>>]
       IN IF ~rec.hasReturnValue \/ rec.returnValue # list[i][3]
          THEN [table |-> r.table, changed |-> TRUE]
          ELSE CheckAll(r.table, list, i + 1, state, canReRun)

TransformAll(table, sel, key, state, got) ==
  LET m == innerFn(sel, key, innerFnArguments(sel, state), got, NextVer(table[<<sel, key>>]))
  IN CASE m.t = "return" -> [table |-> table, val |-> m.val, err |-> NoError]
       [] m.t = "throw" -> [table |-> table, val |-> Undefined, err |-> ErrorOf(sel)]
       [] m.t = "call" ->
            LET r == EvaluateAll(table, m.sel, m.key, state, TRUE)
                rec == r.table[<<m.sel, m.key>>]
            IN IF rec.error # NoError
               THEN [table |-> r.table, val |-> Undefined, err |-> rec.error]
               ELSE TransformAll(r.table, sel, key, state, Append(got, rec.returnValue))
       [] m.t = "probe" ->
            LET r == EvaluateAll(table, m.sel, m.key, state, FALSE)
                rec == r.table[<<m.sel, m.key>>]
            IN TransformAll(r.table, sel, key, state,
                            Append(got, IF rec.hasReturnValue THEN True ELSE False))

\* What parameterizedSelector(state, keyParams), called from outside, hands back.
WouldReturn(table, sel, key, state) ==
  LET r == EvaluateAll(table, sel, key, state, TRUE)
      rec == r.table[<<sel, key>>]
  IN IF rec.error # NoError THEN [t |-> "throw", v |-> Undefined, e |-> rec.error]
     ELSE [t |-> "value", v |-> rec.returnValue, e |-> NoError]

\* Would that call reuse the cached value, its own transform not invoked?
WouldReuse(table, sel, key, state) ==
  EvaluateAll(table, sel, key, state, TRUE).path = "skippedRunCount"

Core(rec) == [state |-> rec.state, hasReturnValue |-> rec.hasReturnValue,
              returnValue |-> rec.returnValue, error |-> rec.error,
              counts |-> CountsOf(rec)]

\* The two readings of the engine agree: step by step, and in one go.
SameOutcome ==
  (Done /\ op.kind = "call") =>
    LET r == EvaluateAll(pre, op.sel, op.key, StateObj(op.sid), TRUE)
    IN /\ lastResult = WouldReturn(pre, op.sel, op.key, StateObj(op.sid))
       /\ DOMAIN r.table = DOMAIN resultRecordsByParam
       /\ \A sk \in DOMAIN r.table : Core(r.table[sk]) = Core(resultRecordsByParam[sk])


(***************************************************************************)
(* C2  Phantom-run reference stability: when a recomputation ends with a   *)
(* value the result comparator judges equivalent to the value the record   *)
(* holds from an earlier run, the record keeps that reference (it is what  *)
(* the evaluation hands back) and phantomRunCount, not fullRunCount, grows. *)
(***************************************************************************)
TopKey == <<TopAct.sel, TopAct.key>>
TopRecord == resultRecordsByParam[TopKey]

HoldsEarlierValue(rec) == rec.fullRunCount > 0 /\ rec.error = NoError

EquivalentRecomputation ==
  /\ ~Idle
  /\ TopAct.pc = "finish"
  /\ TopAct.newError = NoError
  /\ HoldsEarlierValue(TopRecord)
  /\ compareSelectorResults(TopAct.sel, TopRecord.returnValue, TopAct.newReturnValue)

C2_PhantomKeepsReference ==
  [][EquivalentRecomputation =>
       /\ resultRecordsByParam'[TopKey].returnValue = TopRecord.returnValue
       /\ resultRecordsByParam'[TopKey].phantomRunCount = TopRecord.phantomRunCount + 1
       /\ resultRecordsByParam'[TopKey].fullRunCount = TopRecord.fullRunCount]_vars


(***************************************************************************)
(* C4  Dependency propagation: a selector with a cached value whose        *)
(* recorded own dependencies all still return the recorded reference does  *)
(* not run its transform; it is about to take the skipped path.  Stated    *)
(* at the point where the evaluation chooses its path.                     *)
(***************************************************************************)
EdgeUnchanged(edge) ==
  /\ <<edge[1], edge[2]>> \in DOMAIN resultRecordsByParam
  /\ resultRecordsByParam[<<edge[1], edge[2]>>].hasReturnValue
  /\ resultRecordsByParam[<<edge[1], edge[2]>>].returnValue = edge[3]

Choosing == ~Idle /\ TopAct.pc = "decide"

DependenciesUnchanged ==
  /\ Choosing
  /\ ~isRootSelector(TopAct.sel)
  /\ TopRecord.hasReturnValue
  /\ Len(TopRecord.ownDependencies) > 0
  /\ \A i \in 1..Len(TopRecord.ownDependencies) : EdgeUnchanged(TopRecord.ownDependencies[i])

RootStateJudgedEqual ==
  /\ Choosing
  /\ isRootSelector(TopAct.sel)
  /\ TopRecord.hasReturnValue
  /\ compareIncomingStates(TopAct.sel, TopRecord.state, TopAct.state)

ProbeInProgress ==
  \E i \in 1..Len(ctl) : ctl[i].via \in {"extProbe", "nestedProbe"}

C7_ProbeNonMutation ==
  [][ProbeInProgress =>
       /\ \A s \in Selectors : globalCounts'[s].fullRunCount = globalCounts[s].fullRunCount
       /\ \A sk \in DOMAIN resultRecordsByParam' :
            /\ getAllCountsForParams(resultRecordsByParam', sk).fullRunCount =
                 getAllCountsForParams(resultRecordsByParam, sk).fullRunCount
            /\ sk \in DOMAIN resultRecordsByParam =>
                 resultRecordsByParam'[sk].returnValue = resultRecordsByParam[sk].returnValue]_vars

\* A probe is in progress, a dependency with a cached value has just been aborted.
C7_Witness ==
  /\ ProbeInProgress
  /\ \E sk \in DOMAIN resultRecordsByParam :
       /\ resultRecordsByParam[sk].abortedRunCount > 0
       /\ resultRecordsByParam[sk].fullRunCount > 0
       /\ ~Idle /\ TopKey # sk

(***************************************************************************)
(* C8  Probing only reuse-checks or aborts: while the entry on top of the  *)
(* call stack has canReRun = false, no transform is running, and an        *)
(* evaluation that cannot use its previous result aborts: hasReturnValue   *)
(* becomes false, abortedRunCount grows by one, nothing else is counted    *)
(* and no call stack entry is pushed.                                      *)
(***************************************************************************)
TopCannotReRun ==
  /\ Len(parameterizedSelectorCallStack) > 0
  /\ ~getTopCallStackEntry(parameterizedSelectorCallStack).canReRun

C8_ProbeAborts ==
  [][TopCannotReRun =>
       /\ ~Idle
       /\ TopAct.pc \notin {"run", "finish"}
       /\ (Choosing /\ ~TopAct.canUsePreviousResult) =>
            /\ ~resultRecordsByParam'[TopKey].hasReturnValue
            /\ CountsOf(resultRecordsByParam'[TopKey]) =
                 [CountsOf(TopRecord) EXCEPT !.abortedRunCount = @ + 1]
            /\ Len(parameterizedSelectorCallStack') <= Len(parameterizedSelectorCallStack)
            /\ Len(ctl') < Len(ctl)]_vars

\* The probed selector itself has been aborted after its dependencies were.
C8_Witness ==
  /\ Done
  /\ op.kind = "probe"
  /\ op.sel = "T"
  /\ resultRecordsByParam[OpKey].abortedRunCount = 1
  /\ resultRecordsByParam[OpKey].fullRunCount = 1
  /\ resultRecordsByParam[<<"R", 1>>].abortedRunCount > 0
  /\ lastResult.v = False


(***************************************************************************)
(* C9  hasCachedResult answers whether the cached result is still valid:   *)
(* it returns true exactly when a normal call with the same arguments,     *)
(* made instead of it, would reuse the cached value without running the    *)
(* selector's own transform.                                               *)
(***************************************************************************)
C9_ProbeAnswersValidity ==
  (Done /\ op.kind = "probe") =>
    ((lastResult.v = True) <=> WouldReuse(pre, op.sel, op.key, StateObj(op.sid)))

(***************************************************************************)
(* C10  A hasCachedResult call is not observable through the next normal   *)
(* call: that call hands back the reference it would have handed back had  *)
(* the probe not been made.                                                *)
(***************************************************************************)
C10_ProbeNotObservable ==
  (Done /\ op.kind = "call" /\ prev.op.kind = "probe") =>
    lastResult = WouldReturn(prePrev, op.sel, op.key, StateObj(op.sid))

(***************************************************************************)
(* C5: for a root selector key that holds a value, once the state has      *)
(* changed as judged by the selector's own state comparator, the external  *)
(* call that next evaluates the key performs exactly one more full or      *)
(* phantom run for it, however many times the key is evaluated within the  *)
(* call: a full run when the new state's value differs from the held one,  *)
(* a phantom run when the result comparator judges the two equivalent.     *)
(***************************************************************************)
Runs(counts) == counts.fullRunCount + counts.phantomRunCount

RootKeyRecomputed(sk) ==
  /\ sk \in DOMAIN pre
  /\ isRootSelector(sk[1])
  /\ HoldsEarlierValue(pre[sk])
  /\ ~compareIncomingStates(sk[1], pre[sk].state, StateObj(op.sid))
  /\ resultRecordsByParam[sk].invokeCount > pre[sk].invokeCount

C5_OneRunPerStateChange ==
  (Done /\ op.kind = "call") =>
    \A sk \in SelKeys :
       RootKeyRecomputed(sk) =>
         /\ Runs(resultRecordsByParam[sk]) = Runs(pre[sk]) + 1
         /\ IF compareSelectorResults(sk[1], pre[sk].returnValue,
                                      StateObj(op.sid).data[sk[2]])
            THEN resultRecordsByParam[sk].phantomRunCount = pre[sk].phantomRunCount + 1
            ELSE resultRecordsByParam[sk].fullRunCount = pre[sk].fullRunCount + 1

(***************************************************************************)
(* C11: when the transform of the externally called selector throws        *)
(* during the call, also when the key held a valid value before, the       *)
(* external call raises that failure instead of returning a value, and     *)
(* afterwards the key's record has the error set and hasReturnValue false. *)
(***************************************************************************)
ThrewInCall(sk) ==
  /\ sk \in DOMAIN resultRecordsByParam
  /\ resultRecordsByParam[sk].errorRunCount > getAllCountsForParams(pre, sk).errorRunCount

C11_FailureSurfaces ==
  (Done /\ op.kind = "call" /\ ThrewInCall(OpKey)) =>
    /\ lastResult.t = "throw"
    /\ lastResult.e # NoError
    /\ resultRecordsByParam[OpKey].error = lastResult.e
    /\ ~resultRecordsByParam[OpKey].hasReturnValue

C11_Witness ==
  /\ Done
  /\ op.kind = "call"
  /\ ThrewInCall(OpKey)
  /\ OpKey \in DOMAIN pre
  /\ pre[OpKey].hasReturnValue
  /\ lastResult.t = "throw"

(***************************************************************************)
(* C12: when the transform of a nested selector throws while an external   *)
(* call of another selector is evaluated, the failure propagates up: the   *)
(* external call raises it, and afterwards neither the nested selector's   *)
(* record nor the called selector's record has hasReturnValue = true.      *)
(***************************************************************************)
NestedFailure(sk) == sk # OpKey /\ ThrewInCall(sk)

C12_NestedFailurePropagates ==
  (Done /\ op.kind = "call") =>
    \A sk \in SelKeys :
       NestedFailure(sk) =>
         /\ lastResult.t = "throw"
         /\ lastResult.e = resultRecordsByParam[sk].error
         /\ ~resultRecordsByParam[sk].hasReturnValue
         /\ ~resultRecordsByParam[OpKey].hasReturnValue

C12_Witness ==
  /\ Done
  /\ op.kind = "call"
  /\ OpKey \in DOMAIN pre
  /\ pre[OpKey].hasReturnValue
  /\ \E sk \in DOMAIN pre : NestedFailure(sk) /\ pre[sk].hasReturnValue
  /\ lastResult.t = "throw"

(***************************************************************************)
(* C13: if a recorded dependency fails (its transform throws, or it cannot *)
(* produce a value) while a selector is dirty-checking its dependencies,   *)
(* the checking selector treats the dependency as changed: it does not     *)
(* reuse its cached value in that evaluation, and re-runs its own          *)
(* transform whenever the call stack allows re-running.                    *)
(***************************************************************************)
C13_FailedDependencyForcesRerun ==
  \A i \in 1..Len(ctl) :
     (ctl[i].sawFailure /\ ctl[i].pc = "decide") => ~ctl[i].canUsePreviousResult

(***************************************************************************)
(* C14: no retries.  Within a single external call, once the transform of  *)
(* a selector has thrown for a parameter key, that transform is not        *)
(* invoked again for that key: a key has at most one error run per         *)
(* external call.                                                          *)
(***************************************************************************)
C14_NoRetries ==
  \A sk \in DOMAIN resultRecordsByParam :
     resultRecordsByParam[sk].errorRunCount
       <= getAllCountsForParams(pre, sk).errorRunCount + 1

(***************************************************************************)
(* C15: results are cached independently per parameter key.  An external   *)
(* evaluation of a root selector with key k leaves the record of every     *)
(* other key of that selector as it was (value, stored state,              *)
(* hasReturnValue, all counters), and what a call returns for k is what    *)
(* it would return had no other key ever been evaluated.                   *)
(***************************************************************************)
OtherKeysOf(sel, key) == {sk \in SelKeys : sk[1] = sel /\ sk[2] # key}

OwnRecordOnly(table, sk) == [x \in DOMAIN table \cap {sk} |-> table[x]]

C15_KeysIndependent ==
  (Done /\ isRootSelector(op.sel)) =>
    /\ \A sk \in OtherKeysOf(op.sel, op.key) :
          IF sk \in DOMAIN pre
          THEN sk \in DOMAIN resultRecordsByParam /\ resultRecordsByParam[sk] = pre[sk]
          ELSE sk \notin DOMAIN resultRecordsByParam
    /\ op.kind = "call" =>
          lastResult = WouldReturn(OwnRecordOnly(pre, OpKey), op.sel, op.key,
                                   StateObj(op.sid))

C15_Witness ==
  /\ Done
  /\ op.kind = "call"
  /\ isRootSelector(op.sel)
  /\ OpKey \in DOMAIN pre
  /\ pre[OpKey].hasReturnValue
  /\ \E sk \in OtherKeysOf(op.sel, op.key) : sk \in DOMAIN pre /\ pre[sk].hasReturnValue

(***************************************************************************)
(* C16: a selector created without a key function (createKeyFromParams in  *)
(* neither its own options nor the options given to withOptions) fails     *)
(* with an error at its first use, and at every use: no transform runs,    *)
(* no invocation is counted and no result record is created for it.        *)
(***************************************************************************)
Supplied(sel, name) ==
  name \in DOMAIN created[sel].base \/ name \in DOMAIN created[sel].options

C16_MissingKeyFunctionFails ==
  \A sel \in DOMAIN created :
     ~Supplied(sel, "createKeyFromParams") =>
       /\ \A sk \in DOMAIN resultRecordsByParam : sk[1] # sel
       /\ globalCounts[sel] = ZeroCounts
       /\ \A i \in 1..Len(ctl) : ctl[i].sel = sel => ctl[i].pc = "begin"
       /\ (Done /\ op.sel = sel) =>
             lastResult = [t |-> "throw", v |-> Undefined,
                           e |-> MustBeSet("createKeyFromParams")]

C16_Witness ==
  /\ Done
  /\ op.sel \in DOMAIN created
  /\ ~Supplied(op.sel, "createKeyFromParams")
  /\ lastResult.t = "throw"

(***************************************************************************)
(* C17: a selector created without the isRootSelector option (but with a   *)
(* key function) fails with an error when it is first called; it is never  *)
(* run as if it were a root selector or a non-root selector.               *)
(***************************************************************************)
C17_MissingRootFlagFails ==
  \A sel \in DOMAIN created :
     (Supplied(sel, "createKeyFromParams") /\ ~Supplied(sel, "isRootSelector")) =>
       /\ globalCounts[sel].fullRunCount = 0
       /\ (Done /\ op.sel = sel /\ op.kind = "call") =>
             lastResult = [t |-> "throw", v |-> Undefined, e |-> MustBeSet("isRootSelector")]

(***************************************************************************)
(* C18: a selector created by a factory from withOptions(baseConfig) takes *)
(* each option from its own options if given there, otherwise from         *)
(* baseConfig, otherwise from the library defaults; and the options a      *)
(* selector captured when created never change afterwards.                 *)
(***************************************************************************)
Effective(sel, name) ==
  IF name \in DOMAIN created[sel].options THEN created[sel].options[name]
  ELSE IF name \in DOMAIN created[sel].base THEN created[sel].base[name]
  ELSE defaultOptions[name]

OptionsAsCreated ==
  \A sel \in DOMAIN created :
     /\ sel \in DOMAIN options
     /\ DOMAIN options[sel] = OptionNames
     /\ \A name \in OptionNames : options[sel][name] = Effective(sel, name)

C18_OptionsPrecedence ==
  /\ []OptionsAsCreated
  /\ [][\A sel \in DOMAIN options : sel \in DOMAIN options' /\ options'[sel] = options[sel]]_vars

C18_Witness ==
  /\ "N" \in DOMAIN created
  /\ "isRootSelector" \in DOMAIN created["N"].base
  /\ "isRootSelector" \in DOMAIN created["N"].options
  /\ created["N"].base["isRootSelector"] # created["N"].options["isRootSelector"]
  /\ "compareSelectorResults" \in DOMAIN created["N"].base
  /\ "compareSelectorResults" \notin DOMAIN created["N"].options
  /\ Done
  /\ op.sel = "N"

(***************************************************************************)
(* C19: in the dependency check of a non-root selector whose state         *)
(* changed, the selector is reused exactly when every edge of its root     *)
(* dependency list and of its own dependency list yields an unchanged      *)
(* value; an edge of either list whose dependency yields a different value *)
(* or no value forces recomputation.                                       *)
(***************************************************************************)
DependencyCheckDone ==
  /\ Choosing
  /\ ~isRootSelector(TopAct.sel)
  /\ TopRecord.hasReturnValue
  /\ TopRecord.state.id # TopAct.state.id
  /\ Len(TopRecord.rootDependencies) + Len(TopRecord.ownDependencies) > 0

\* What evaluating the dependency of an edge for the state at hand yields now.
YieldsUnchanged(edge) ==
  LET r == EvaluateAll(resultRecordsByParam, edge[1], edge[2], TopAct.state,
                       ~TopCannotReRun)
      rec == r.table[<<edge[1], edge[2]>>]
  IN rec.hasReturnValue /\ rec.returnValue = edge[3]

AllEdgesUnchanged(rec) ==
  /\ \A i \in 1..Len(rec.rootDependencies) : YieldsUnchanged(rec.rootDependencies[i])
  /\ \A i \in 1..Len(rec.ownDependencies) : YieldsUnchanged(rec.ownDependencies[i])

C20_CanReRunNarrows ==
  /\ \A i \in 2..Len(parameterizedSelectorCallStack) :
        parameterizedSelectorCallStack[i].canReRun
          => parameterizedSelectorCallStack[i - 1].canReRun
  /\ (~Idle /\ ctl[1].via = "extCall")
        => /\ Len(parameterizedSelectorCallStack) > 0
           /\ parameterizedSelectorCallStack[1].canReRun

\* A hasCachedResult made by a transform that an outside call is running.
C20_Witness ==
  /\ ~Idle
  /\ ctl[1].via = "extCall"
  /\ Len(parameterizedSelectorCallStack) > 2
  /\ parameterizedSelectorCallStack[1].canReRun
  /\ parameterizedSelectorCallStack[2].canReRun
  /\ ~parameterizedSelectorCallStack[3].canReRun

(***************************************************************************)
(* C21: every evaluation takes exactly one path.  It adds one to the       *)
(* invokeCount of its key and, when it ends, one to exactly one outcome    *)
(* counter (skipped, phantom, full, aborted, error): the invokeCount of a  *)
(* key is the sum of its outcome counters plus its evaluations still in    *)
(* progress, and so equals that sum whenever no evaluation is in progress. *)
(***************************************************************************)
OutcomeSum(counts) ==
  counts.skippedRunCount + counts.phantomRunCount + counts.fullRunCount
    + counts.abortedRunCount + counts.errorRunCount

InProgress(sk) ==
  Cardinality({i \in 1..Len(ctl) : <<ctl[i].sel, ctl[i].key>> = sk /\ ctl[i].pc # "begin"})

C21_OnePathPerEvaluation ==
  \A sk \in DOMAIN resultRecordsByParam :
     resultRecordsByParam[sk].invokeCount
       = OutcomeSum(CountsOf(resultRecordsByParam[sk])) + InProgress(sk)

C21_Witness ==
  /\ Done
  /\ \E sk \in DOMAIN resultRecordsByParam :
        /\ resultRecordsByParam[sk].skippedRunCount > 0
        /\ resultRecordsByParam[sk].abortedRunCount > 0
        /\ resultRecordsByParam[sk].fullRunCount > 0
  /\ \E sk \in DOMAIN resultRecordsByParam : resultRecordsByParam[sk].errorRunCount > 0

(***************************************************************************)
(* C22: a result record is created on the first evaluation of its key and  *)
(* is never evicted or reset.  No record exists at the start; a record     *)
(* appears only with an evaluation of its key under way and with that one  *)
(* invocation as its only count (all counts of the key read 0 before);     *)
(* and no step removes a record or lowers any of its counters.             *)
(***************************************************************************)
FirstEvaluation(sk) ==
  /\ sk \notin DOMAIN resultRecordsByParam
  /\ sk \in DOMAIN resultRecordsByParam'

C22_RecordsPersist ==
  /\ DOMAIN resultRecordsByParam = {}
  /\ [][\A sk \in SelKeys :
          /\ FirstEvaluation(sk) =>
               /\ getAllCountsForParams(resultRecordsByParam, sk) = ZeroCounts
               /\ CountsOf(resultRecordsByParam'[sk]) = Bump(ZeroCounts, "invokeCount")
               /\ <<ctl'[Len(ctl')].sel, ctl'[Len(ctl')].key>> = sk
          /\ sk \in DOMAIN resultRecordsByParam =>
               /\ sk \in DOMAIN resultRecordsByParam'
               /\ \A c \in DOMAIN ZeroCounts :
                     resultRecordsByParam'[sk][c] >= resultRecordsByParam[sk][c]]_vars

C22_Witness ==
  /\ Done
  /\ \E sk \in DOMAIN resultRecordsByParam :
        /\ resultRecordsByParam[sk].abortedRunCount > 0
        /\ resultRecordsByParam[sk].fullRunCount > 0
        /\ resultRecordsByParam[sk].phantomRunCount + resultRecordsByParam[sk].errorRunCount > 0

(***************************************************************************)
(* C23: for every selector and every kind of counter (invoke, skipped,     *)
(* phantom, full, aborted), whenever no evaluation is in progress the      *)
(* selector-wide count equals the sum of the per-key counts over all keys  *)
(* of that selector.                                                       *)
(***************************************************************************)
CounterKinds ==
  {"invokeCount", "skippedRunCount", "phantomRunCount", "fullRunCount", "abortedRunCount"}

RECURSIVE SumOverKeys(_, _)
SumOverKeys(keys, counter) ==
  IF keys = {} THEN 0
  ELSE LET sk == CHOOSE x \in keys : TRUE
       IN resultRecordsByParam[sk][counter] + SumOverKeys(keys \ {sk}, counter)

KeysOf(sel) == {sk \in DOMAIN resultRecordsByParam : sk[1] = sel}

C23_GlobalIsSumOfKeys ==
  Idle => \A sel \in Selectors : \A counter \in CounterKinds :
            globalCounts[sel][counter] = SumOverKeys(KeysOf(sel), counter)

C23_Witness ==
  /\ Done
  /\ Cardinality(KeysOf("R")) > 1
  /\ \A sk \in KeysOf("R") : resultRecordsByParam[sk].fullRunCount > 0
  /\ globalCounts["R"].invokeCount > 2
  /\ globalCounts["R"].skippedRunCount > 0

(***************************************************************************)
(* C24: the dependency check is attempted only for a selector that is not  *)
(* a root selector, whose state check failed and whose record holds at     *)
(* least one dependency edge.  A root selector whose state changed is not  *)
(* reused and evaluates none of the dependencies it recorded; a selector   *)
(* that recorded no edge is not reused when the state reference changed.   *)
(***************************************************************************)
DependencyCheckStarts ==
  /\ Len(ctl') = Len(ctl) + 1
  /\ ctl'[Len(ctl')].via = "depCheck"

HasEdges(rec) == Len(rec.rootDependencies) + Len(rec.ownDependencies) > 0

RootWithChangedState ==
  /\ Choosing
  /\ isRootSelector(TopAct.sel)
  /\ TopRecord.hasReturnValue
  /\ ~StateUnchanged(TopAct.sel, TopAct.state, TopRecord.state)

NoEdgesAndNewReference ==
  /\ Choosing
  /\ ~isRootSelector(TopAct.sel)
  /\ TopRecord.hasReturnValue
  /\ ~HasEdges(TopRecord)
  /\ TopRecord.state.id # TopAct.state.id

C24_WhenDependenciesAreChecked ==
  /\ []((RootWithChangedState \/ NoEdgesAndNewReference)
          => (~TopAct.canUsePreviousResult /\ ~ENABLED SkippedRun))
  /\ [][DependencyCheckStarts =>
          /\ ~isRootSelector(TopAct.sel)
          /\ TopRecord.hasReturnValue
          /\ ~StateUnchanged(TopAct.sel, TopAct.state, TopRecord.state)
          /\ HasEdges(TopRecord)]_vars

\* Q recorded R(1), the state object is new, its data are the same: Q runs again.
C24_Witness ==
  /\ RootWithChangedState
  /\ TopAct.sel = "Q"
  /\ HasEdges(TopRecord)
  /\ Truthy(TopAct.state)
  /\ Truthy(TopRecord.state)
  /\ TopAct.state.data = TopRecord.state.data
  /\ ENABLED StartRun

(***************************************************************************)
(* C25: for a selector that is not a root selector the state check is      *)
(* strict identity; the configured state comparator is never consulted.    *)
(* When such a selector is reused without any dependency having been       *)
(* looked at, the state is the very object the record holds, also when the *)
(* comparator would judge a different object equal.                        *)
(***************************************************************************)
\* The evaluation on top goes from its start straight to a reuse.
ReusedAtOnce ==
  /\ ~Idle
  /\ TopAct.pc = "begin"
  /\ Len(ctl') = Len(ctl)
  /\ ctl'[Len(ctl')].pc = "decide"
  /\ ctl'[Len(ctl')].canUsePreviousResult

\* A dependency check with no root edge to look at ends at once (see C19).
NothingToLookAt(rec) == HasEdges(rec) /\ Len(rec.rootDependencies) = 0

C25_IdentityOnlyBelowRoot ==
  [][(ReusedAtOnce /\ ~isRootSelector(TopAct.sel) /\ ~NothingToLookAt(TopRecord))
       => TopRecord.state.id = TopAct.state.id]_vars

\* K is handed a new state object that its comparator judges equal, and is not reused.
C25_Witness ==
  /\ Choosing
  /\ TopAct.sel = "K"
  /\ TopRecord.hasReturnValue
  /\ TopRecord.state.id # TopAct.state.id
  /\ Truthy(TopAct.state)
  /\ Truthy(TopRecord.state)
  /\ compareIncomingStates("K", TopRecord.state, TopAct.state)
  /\ ~TopAct.canUsePreviousResult

(***************************************************************************)
(* C26: reuse by state identity holds for every state value.  A selector   *)
(* whose record has a return value and holds the very state it is handed   *)
(* now, be it an object or an empty value such as null, is marked reusable *)
(* and takes the skipped path.                                             *)
(***************************************************************************)
SameStateAgain ==
  /\ Choosing
  /\ TopRecord.hasReturnValue
  /\ TopRecord.state = TopAct.state

C26_IdentityReuseForEveryState ==
  SameStateAgain => (TopAct.canUsePreviousResult /\ ENABLED SkippedRun /\ ~ENABLED StartRun)

(***************************************************************************)
(* C27: every evaluation of a selector whose parent frame records          *)
(* dependencies appends exactly one edge (selector, params, value) to the  *)
(* own-dependency list of that frame, whatever its path (skipped, phantom, *)
(* full, aborted, failed), and the value of the edge is the value the      *)
(* evaluation hands back.  The parent frame is the one on top of the stack *)
(* when the evaluation began; where it outlives the evaluation its list    *)
(* is seen to grow by that edge, the lists of the frames below staying.    *)
(***************************************************************************)
EvaluationEnds == Len(ctl') < Len(ctl)

\* The frame that was on top when the evaluation on top of ctl began.
ParentFrame ==
  IF TopAct.pc = "finish" THEN Len(parameterizedSelectorCallStack) - 1
  ELSE Len(parameterizedSelectorCallStack)

EdgeOfEvaluation == <<TopAct.sel, TopAct.key, resultRecordsByParam'[TopKey].returnValue>>

C27_OneOwnEdgePerEvaluation ==
  [][EvaluationEnds =>
       /\ Len(ctl') = Len(ctl) - 1
       /\ \A i \in 1..Len(parameterizedSelectorCallStack') :
            parameterizedSelectorCallStack'[i].ownDependencies =
              IF i = ParentFrame /\ parameterizedSelectorCallStack[i].shouldRecordDependencies
              THEN Append(parameterizedSelectorCallStack[i].ownDependencies, EdgeOfEvaluation)
              ELSE parameterizedSelectorCallStack[i].ownDependencies
       /\ (TopAct.via = "nestedCall" /\ resultRecordsByParam'[TopKey].error = NoError)
            => ctl'[Len(ctl')].got = Append(ctl[Len(ctl')].got, EdgeOfEvaluation[3])]_vars

\* The transform of T has called I(1) and S(2), and holds what S(2) gave back.
C27_Witness ==
  /\ ~Idle
  /\ TopAct.pc = "run"
  /\ TopAct.sel = "T"
  /\ Len(TopAct.got) = 2
  /\ LET own == getTopCallStackEntry(parameterizedSelectorCallStack).ownDependencies
     IN /\ Len(own) > 1
        /\ own[Len(own)] = <<"S", 2, TopAct.got[2]>>

(***************************************************************************)
(* C28: when the evaluation of a root selector ends, its edge is appended  *)
(* to the root-dependency list of every frame on the stack, not of the     *)
(* immediate parent only (the evaluation of another selector leaves the    *)
(* root-dependency lists alone); and a run that succeeds writes the root   *)
(* edges its frame collected to the record, which so lists every root      *)
(* selector evaluated, directly or transitively, during that run.          *)
(***************************************************************************)
RunSucceeds ==
  /\ EvaluationEnds
  /\ TopAct.pc = "finish"
  /\ resultRecordsByParam'[TopKey].error = NoError

C28_RootEdgesOnEveryFrame ==
  [][EvaluationEnds =>
       /\ \A i \in 1..Len(parameterizedSelectorCallStack') :
            parameterizedSelectorCallStack'[i].rootDependencies =
              IF isRootSelector(TopAct.sel)
                 /\ parameterizedSelectorCallStack[i].shouldRecordDependencies
              THEN Append(parameterizedSelectorCallStack[i].rootDependencies, EdgeOfEvaluation)
              ELSE parameterizedSelectorCallStack[i].rootDependencies
       /\ RunSucceeds =>
            LET collected == getTopCallStackEntry(parameterizedSelectorCallStack).rootDependencies
                written == resultRecordsByParam'[TopKey].rootDependencies
            IN \A i \in 1..Len(collected) : \E j \in 1..Len(written) : written[j] = collected[i]]_vars

\* T called I(1), which called R(1): T's record lists R(1) among its root dependencies.
C28_Witness ==
  /\ Done
  /\ op = [kind |-> "call", sel |-> "T", key |-> 1, sid |-> cur]
  /\ lastResult.t = "value"
  /\ resultRecordsByParam[<<"T", 1>>].fullRunCount = 1
  /\ \E j \in 1..Len(resultRecordsByParam[<<"T", 1>>].rootDependencies) :
        resultRecordsByParam[<<"T", 1>>].rootDependencies[j][1] = "R"
  /\ \A j \in 1..Len(resultRecordsByParam[<<"T", 1>>].ownDependencies) :
        resultRecordsByParam[<<"T", 1>>].ownDependencies[j][1] # "R"

(***************************************************************************)
(* C29: the own-dependency list of a record holds edges only for the       *)
(* selectors its transform calls directly; a selector evaluated only while *)
(* a child was checking its own dependencies is never added to it.         *)
(***************************************************************************)
\* The selectors the transform of sel calls (see innerFn).
CalledDirectly(sel) ==
  CASE sel \in {"I", "Q"} -> {"R"}
    [] sel = "T" -> {"I", "S"}
    [] sel = "P" -> {"I", "R"}
    [] sel = "V" -> {"I"}
    [] OTHER -> {}

C29_OwnEdgesAreImmediateChildren ==
  \A sk \in DOMAIN resultRecordsByParam :
     \A j \in 1..Len(resultRecordsByParam[sk].ownDependencies) :
        resultRecordsByParam[sk].ownDependencies[j][1] \in CalledDirectly(sk[1])

(***************************************************************************)
(* C30: after every successful recomputation (phantom or full) the root-   *)
(* and own-dependency lists of the record are exactly the edges collected  *)
(* in the fresh frame of that run, also when the run collected no edge;    *)
(* after a failed recomputation the lists of the record are unchanged.     *)
(***************************************************************************)
RunFails ==
  /\ EvaluationEnds
  /\ TopAct.pc = "finish"
  /\ resultRecordsByParam'[TopKey].error # NoError

C30_DependenciesReplacedByRun ==
  [][/\ RunSucceeds =>
          /\ resultRecordsByParam'[TopKey].rootDependencies =
               getTopCallStackEntry(parameterizedSelectorCallStack).rootDependencies
          /\ resultRecordsByParam'[TopKey].ownDependencies =
               getTopCallStackEntry(parameterizedSelectorCallStack).ownDependencies
     /\ RunFails =>
          /\ resultRecordsByParam'[TopKey].rootDependencies =
               resultRecordsByParam[TopKey].rootDependencies
          /\ resultRecordsByParam'[TopKey].ownDependencies =
               resultRecordsByParam[TopKey].ownDependencies]_vars

(***************************************************************************)
(* C31: a dependency check evaluates the recorded root-dependency edges    *)
(* before the own-dependency edges, each list in recorded order, and stops *)
(* in a list at the first edge it finds changed: no edge after the first   *)
(* changed edge of a list is evaluated in that check.                      *)
(***************************************************************************)
RecordedEdge(act, e) ==
  LET list == IF e.list = "checkRoot" THEN act.previousRootDependencies
              ELSE act.previousOwnDependencies
  IN /\ e.idx \in 1..Len(list)
     /\ <<list[e.idx][1], list[e.idx][2]>> = <<e.sel, e.key>>

InCheckOrder(act) ==
  \A j \in 1..Len(act.checked) :
     /\ RecordedEdge(act, act.checked[j])
     /\ j = 1 => act.checked[j].idx = 1
     /\ j > 1 =>
          IF act.checked[j].list = act.checked[j - 1].list
          THEN /\ act.checked[j].idx = act.checked[j - 1].idx + 1
               /\ ~act.checked[j - 1].changed
          ELSE /\ act.checked[j - 1].list = "checkRoot"
               /\ act.checked[j].list = "checkOwn"
               /\ act.checked[j].idx = 1

C31_CheckOrderAndShortCircuit ==
  \A i \in 1..Len(ctl) : InCheckOrder(ctl[i])

\* A check that found an edge changed and left the edges after it alone.
C31_Witness ==
  /\ Choosing
  /\ Len(TopAct.checked) > 1
  /\ LET e == TopAct.checked[Len(TopAct.checked)]
     IN /\ e.changed
        /\ e.list = "checkOwn"
        /\ e.idx < Len(TopAct.previousOwnDependencies)
  /\ \E j \in 1..Len(TopAct.checked) :
        /\ TopAct.checked[j].list = "checkRoot"
        /\ TopAct.checked[j].idx < Len(TopAct.previousRootDependencies)

(***************************************************************************)
(* C32: in every reachable state no result record has both hasReturnValue  *)
(* true and an error set: a failure clears hasReturnValue and returnValue, *)
(* and a later successful full run clears the error.                       *)
(***************************************************************************)
C32_ErrorExcludesValue ==
  \A sk \in DOMAIN resultRecordsByParam :
     resultRecordsByParam[sk].error # NoError
       => /\ ~resultRecordsByParam[sk].hasReturnValue
          /\ resultRecordsByParam[sk].returnValue = Undefined

\* A key that had failed before the call has a value after it, and no error.
C32_Witness ==
  /\ Done
  /\ \E sk \in DOMAIN pre :
        /\ pre[sk].error # NoError
        /\ resultRecordsByParam[sk].hasReturnValue
        /\ resultRecordsByParam[sk].error = NoError
        /\ resultRecordsByParam[sk].fullRunCount > pre[sk].fullRunCount

(***************************************************************************)
(* C33: after any external call to a selector or to hasCachedResult has    *)
(* completed, whether it returned or raised (a failing transform, a        *)
(* failing nested selector, or a failure at first use for want of a        *)
(* required option), the global call stack is empty again, so that the     *)
(* next external call is taken as external.                                *)
(***************************************************************************)
C33_StackEmptyAfterCall ==
  Done => parameterizedSelectorCallStack = <<>>

(***************************************************************************)
(* C34: during one external call every frame of the call stack carries the *)
(* same state value, the first argument of that call, and every nested     *)
(* evaluation (dependency checks and nested probes included) runs against  *)
(* that state, never against the state of an earlier call.                 *)
(***************************************************************************)
C34_OneStatePerCall ==
  ~Idle =>
    /\ \A i \in 1..Len(parameterizedSelectorCallStack) :
          parameterizedSelectorCallStack[i].state = StateObj(op.sid)
    /\ \A i \in 1..Len(ctl) : ctl[i].state = StateObj(op.sid)

(***************************************************************************)
(* C35: a hasCachedResult call made from inside a transform leaves the     *)
(* own-dependency and root-dependency lists of every enclosing frame       *)
(* unchanged: while the probe is in progress (its frame is the top of the  *)
(* stack) no step appends an edge to a frame below it, whether the probed  *)
(* selector is a root selector or not.                                     *)
(***************************************************************************)
NestedProbeInProgress == \E j \in 1..Len(ctl) : ctl[j].via = "nestedProbe"

EnclosingFramesKeepLists ==
  \A i \in 1..(Len(parameterizedSelectorCallStack) - 1) :
     /\ parameterizedSelectorCallStack'[i].ownDependencies =
          parameterizedSelectorCallStack[i].ownDependencies
     /\ parameterizedSelectorCallStack'[i].rootDependencies =
          parameterizedSelectorCallStack[i].rootDependencies

C35_ProbeRecordsNothing == [][NestedProbeInProgress => EnclosingFramesKeepLists]_vars

(***************************************************************************)
(* C36: every external call terminates, returning a value or raising (the  *)
(* transforms of the model terminate and none calls its own selector with  *)
(* its own key); the re-evaluation of recorded dependencies in a dirty     *)
(* check terminates because the recorded edges never form a cycle.         *)
(***************************************************************************)
EdgeSet(list) == {<<list[i][1], list[i][2]>> : i \in 1..Len(list)}

EdgesOf(sk) ==
  EdgeSet(resultRecordsByParam[sk].rootDependencies)
    \cup EdgeSet(resultRecordsByParam[sk].ownDependencies)

RECURSIVE ReachableFrom(_, _)
ReachableFrom(found, n) ==
  LET more == found \cup UNION {EdgesOf(sk) : sk \in found \cap DOMAIN resultRecordsByParam}
  IN IF n = 0 \/ more = found THEN found ELSE ReachableFrom(more, n - 1)

DependenciesAcyclic ==
  \A sk \in DOMAIN resultRecordsByParam :
     sk \notin ReachableFrom(EdgesOf(sk), Cardinality(SelKeys))

====
